---- MODULE Spec2Model ----
(***************************************************************************)
(* BagHandler (bagitutils.py): the table normaliser (_reformat_headers,    *)
(* transform) and the bundle packager (create_bag, __zipdir).              *)
(*                                                                         *)
(* A DataFrame is a record [columns, index, rows]: the column labels, the  *)
(* row labels and the rows (each a sequence of cell values, one per        *)
(* column).  A Series is [name, index, values].  Column names, paths and   *)
(* cell values are strings; a missing cell is NaN.                         *)
(***************************************************************************)
EXTENDS Integers, Sequences, FiniteSets, TLC

VARIABLES
    data,        \* self.data
    name,        \* self.name
    pc,          \* position of the running method
    tables,      \* what transform returned: [participant, sample]
    ret,         \* the path create_bag returned ("" before it returns)
    err,         \* the exception that left the method (or "none")
    dirs,        \* directories on disk
    files,       \* regular files on disk: path -> content
    tempd,       \* create_bag's local tempd ("" before mkdtemp)
    zipfile_tmp, \* the name of create_bag's local zipfile_tmp ("" before line 50)
    todo         \* __zipdir: the files of the walk not yet written

vars == <<data, name, pc, tables, ret, err, dirs, files, tempd, zipfile_tmp, todo>>

-----------------------------------------------------------------------------
(* Bounds of the model. *)

MaxRows == 3
MaxBagRows == 2
MaxNameLen == 2

-----------------------------------------------------------------------------
(* Strings. *)

NaN == "NaN"

Upper == "ABCDEFGHIJKLMNOPQRSTUVWXYZ"
Lower == "abcdefghijklmnopqrstuvwxyz"

CharAt(s, i) == SubSeq(s, i, i)

RECURSIVE StrReplaceFrom(_, _, _, _)
StrReplaceFrom(s, i, old, new) ==
    IF i > Len(s) THEN ""
    ELSE (IF CharAt(s, i) = old THEN new ELSE CharAt(s, i))
         \o StrReplaceFrom(s, i + 1, old, new)

\* str.replace(old, new) for a one-character old
StrReplace(s, old, new) == StrReplaceFrom(s, 1, old, new)

UpperChars == {CharAt(Upper, i) : i \in 1..Len(Upper)}

LowerOf == [c \in UpperChars |->
              CharAt(Lower, CHOOSE i \in 1..Len(Upper) : CharAt(Upper, i) = c)]

LowerChar(c) == IF c \in UpperChars THEN LowerOf[c] ELSE c

RECURSIVE StrLowerFrom(_, _)
StrLowerFrom(s, i) ==
    IF i > Len(s) THEN "" ELSE LowerChar(CharAt(s, i)) \o StrLowerFrom(s, i + 1)

\* str.lower()
StrLower(s) == StrLowerFrom(s, 1)

\* the characters str.isspace() accepts, among those the inputs use
Whitespace == {" ", "\t"}

HasChar(s, cs) == \E i \in 1..Len(s) : CharAt(s, i) \in cs

HasUpper(s) == HasChar(s, UpperChars)

-----------------------------------------------------------------------------
(* Sequences. *)

Range(s) == {s[i] : i \in DOMAIN s}

\* the sequence s itself, as an explicit tuple
Tuple(s) == s \o <<>>

SeqMap(Op(_), s) == Tuple([i \in DOMAIN s |-> Op(s[i])])

RECURSIVE SelectIdx(_, _, _)
\* the positions i..Len(s) of s that satisfy Test, in order
SelectIdx(s, Test(_), i) ==
    IF i > Len(s) THEN <<>>
    ELSE (IF Test(i) THEN <<i>> ELSE <<>>) \o SelectIdx(s, Test, i + 1)

IsUnique(s) == \A i, j \in DOMAIN s : s[i] = s[j] => i = j

-----------------------------------------------------------------------------
(* _reformat_headers *)

RenameSpace(x) == StrReplace(x, " ", "_")
RenameDot(x) == StrReplace(x, ".", "_")
RenameLower(x) == StrLower(x)

\* df.rename(columns=f, inplace=True)
RenameColumnsBy(df, f(_)) == [df EXCEPT !.columns = SeqMap(f, df.columns)]

ReformatHeaders(df) ==
    RenameColumnsBy(RenameColumnsBy(RenameColumnsBy(df, RenameSpace), RenameDot), RenameLower)

-----------------------------------------------------------------------------
(* DataFrame operations used by transform. *)

HasColumn(df, c) == c \in Range(df.columns)

RECURSIVE FirstAt(_, _, _)
FirstAt(s, v, i) == IF s[i] = v THEN i ELSE FirstAt(s, v, i + 1)

\* position of the (first) column labelled c
ColPos(columns, c) == FirstAt(columns, c, 1)

\* the rows at positions keep, with their labels
TakeRows(df, keep) ==
    [columns |-> df.columns,
     index   |-> Tuple([k \in DOMAIN keep |-> df.index[keep[k]]]),
     rows    |-> Tuple([k \in DOMAIN keep |-> df.rows[keep[k]]])]

\* df[df[c] == v]
FilterEq(df, c, v) ==
    LET p == ColPos(df.columns, c)
        Test(i) == df.rows[i][p] = v
    IN  TakeRows(df, SelectIdx(df.rows, Test, 1))

\* df[[c1, ..., cn]]
Project(df, cols) ==
    LET pos == Tuple([k \in DOMAIN cols |-> ColPos(df.columns, cols[k])])
    IN  [columns |-> cols,
         index   |-> df.index,
         rows    |-> Tuple([i \in DOMAIN df.rows |->
                              Tuple([k \in DOMAIN cols |-> df.rows[i][pos[k]]])])]

\* df.rename(columns={...}): labels outside the mapping are kept
RenameColumns(df, mapping) ==
    [df EXCEPT !.columns =
        Tuple([i \in DOMAIN df.columns |->
                 IF df.columns[i] \in DOMAIN mapping THEN mapping[df.columns[i]]
                 ELSE df.columns[i]])]

\* frame.reset_index(drop=True): labels 0..n-1
ResetIndex(df) == [df EXCEPT !.index = Tuple([i \in DOMAIN df.rows |-> i - 1])]

\* pd.concat([a, b], axis=1, join_axes=[a.index])
ConcatOnLeftIndexMutant(a, b) ==
    LET keep == SelectIdx(a.index, LAMBDA i : a.index[i] \in Range(b.index), 1)
        Right(l) == b.rows[CHOOSE j \in DOMAIN b.index : b.index[j] = l]
    IN  [columns |-> a.columns \o b.columns,
         index   |-> Tuple([k \in DOMAIN keep |-> a.index[keep[k]]]),
         rows    |-> Tuple([k \in DOMAIN keep |-> a.rows[keep[k]] \o Right(a.index[keep[k]])])]

ConcatOnLeftIndex(a, b) ==
    LET Right(l) == IF l \in Range(b.index)
                    THEN b.rows[CHOOSE j \in DOMAIN b.index : b.index[j] = l]
                    ELSE [k \in DOMAIN b.columns |-> NaN]
    IN  [columns |-> a.columns \o b.columns,
         index   |-> a.index,
         rows    |-> Tuple([i \in DOMAIN a.rows |-> a.rows[i] \o Right(a.index[i])])]

\* df.drop_duplicates(keep='first')
DropDuplicates(df) ==
    LET First(i) == \A j \in 1..(i - 1) : df.rows[j] # df.rows[i]
    IN  TakeRows(df, SelectIdx(df.rows, First, 1))

\* df.reindex(columns=cols), for column labels that are unique in df
Reindex(df, cols) ==
    LET pos == Tuple([k \in DOMAIN cols |->
                        IF cols[k] \in Range(df.columns)
                        THEN ColPos(df.columns, cols[k]) ELSE 0])
    IN  [columns |-> cols,
         index   |-> df.index,
         rows    |-> Tuple([i \in DOMAIN df.rows |->
                              Tuple([k \in DOMAIN cols |->
                                       IF pos[k] = 0 THEN NaN ELSE df.rows[i][pos[k]]])])]

\* df[c] as a Series
Column(df, c) ==
    LET p == ColPos(df.columns, c)
    IN  [name   |-> c,
         index  |-> df.index,
         values |-> Tuple([i \in DOMAIN df.rows |-> df.rows[i][p]])]

-----------------------------------------------------------------------------
(* transform *)

Df2Columns == <<"file_type", "file_path", "upload_file_id", "file_urls", "file_dos_url">>

Df2Rename ==
    [c \in Range(Df2Columns) |-> c \o "2"]

\* 0-based positions in the wide table
new_index ==
    <<11, 4, 3, 7, 5, 6, 8, 9, 10, 12, 13, 14>> \o
    <<0, 1, 2, 18, 19, 15, 16, 17, 20, 21, 22>> \o
    <<23, 24, 25, 26>>

SampleRename ==
    [c \in {"sample_uuid", "donor_uuid", "file_type", "file_path", "upload_file_id",
            "file_urls", "file_dos_url", "metadata.json"} |->
        CASE c = "sample_uuid"   -> "entity:sample_id"
          [] c = "donor_uuid"    -> "participant_id"
          [] c = "metadata.json" -> "metadata_json"
          [] OTHER               -> c \o "1"]

Df1Mutant(df) ==
    LET p == ColPos(df.columns, "file_type")
        Test(i) == df.rows[i][p] # "cram"
    IN  ResetIndex(TakeRows(df, SelectIdx(df.rows, Test, 1)))

\* lines 81, 97
Df1(df) == ResetIndex(FilterEq(df, "file_type", "crai"))

\* lines 83-94, 97
Df2(df) ==
    ResetIndex(RenameColumns(Project(FilterEq(df, "file_type", "cram"), Df2Columns),
                             Df2Rename))

\* lines 100-101
DfNew(df) == DropDuplicates(ConcatOnLeftIndex(Df1(df), Df2(df)))

\* line 100 alone: the joined table before de-duplication
Wide(df) == ConcatOnLeftIndex(Df1(df), Df2(df))

ParticipantMutant(df_new) ==
    LET s == Column(df_new, "donor_uuid")
        First(i) == \A j \in 1..(i - 1) : s.values[j] # s.values[i]
        keep == SelectIdx(s.values, First, 1)
    IN  [name   |-> "entity:participant_id",
         index  |-> Tuple([k \in DOMAIN keep |-> s.index[keep[k]]]),
         values |-> Tuple([k \in DOMAIN keep |-> s.values[keep[k]]])]

\* lines 104-105
Participant(df_new) ==
    [Column(df_new, "donor_uuid") EXCEPT !.name = "entity:participant_id"]

\* lines 112-113
NewColOrder(L) == Tuple([k \in DOMAIN new_index |-> L[new_index[k] + 1]])

\* lines 114-124
Sample(df_new) ==
    LET s == RenameColumns(Reindex(df_new, NewColOrder(df_new.columns)), SampleRename)
    IN  [s EXCEPT !.index = SeqMap(ToString, s.index)]

NoTables == [participant |-> <<>>, sample |-> <<>>]

\* transform: the exception it raises, or "none" and the two tables
Transform(df) ==
    IF ~HasColumn(df, "file_type") THEN [err |-> "KeyError"] @@ NoTables
    ELSE IF \E k \in DOMAIN Df2Columns : ~HasColumn(df, Df2Columns[k])
         THEN [err |-> "KeyError"] @@ NoTables
    ELSE IF ~HasColumn(df, "donor_uuid") THEN [err |-> "KeyError"] @@ NoTables
    ELSE LET df_new == DfNew(df)
         IN  IF \E k \in DOMAIN new_index : new_index[k] + 1 > Len(df_new.columns)
             THEN [err |-> "IndexError"] @@ NoTables
             ELSE IF ~IsUnique(df_new.columns) THEN [err |-> "ValueError"] @@ NoTables
             ELSE [err |-> "none", participant |-> Participant(df_new),
                   sample |-> Sample(df_new)]

-----------------------------------------------------------------------------
(* Input tables. *)

\* the header of the metadata export the handler is fed
RawHeader ==
    <<"Program", "Project", "Center Name", "Submitter Donor ID", "Donor UUID",
      "Submitter Donor Primary Site", "Submitter Specimen ID", "Specimen UUID",
      "Submitter Specimen Type", "Submitter Experimental Design",
      "Submitter Sample ID", "Sample UUID", "Analysis Type", "Workflow Name",
      "Workflow Version", "File Type", "File Path", "Upload File ID",
      "Data Bundle UUID", "Metadata.json", "File URLs", "File DOS URL">>

Identity == [k \in DOMAIN RawHeader |-> k]

Swap(s, i, j) == [s EXCEPT ![i] = s[j], ![j] = s[i]]

\* the columns transform names, by their position in RawHeader
NamedPositions == {5, 12, 16, 17, 18, 21, 22}

\* a layout: the column labels and, per column, the RawHeader position whose
\* cells it carries (0: a column of its own)
Layouts ==
    {[names |-> RawHeader, from |-> Identity],
     [names |-> SeqMap(RenameLower, SeqMap(RenameDot, SeqMap(RenameSpace, RawHeader))),
      from |-> Identity],
     [names |-> Swap(RawHeader, 5, 12), from |-> Swap(Identity, 5, 12)],
     [names |-> Swap(RawHeader, 1, 2), from |-> Swap(Identity, 1, 2)],
     [names |-> Tail(RawHeader), from |-> Tail(Identity)],
     [names |-> Append(RawHeader, "Comment"), from |-> Append(Identity, 0)]}
    \cup {[names |-> [RawHeader EXCEPT ![k] = "Comment"], from |-> Identity] :
            k \in NamedPositions}

Subjects == {<<"D1", "S1">>, <<"D1", "S2">>, <<"D2", "S3">>}

\* one record of the export, in RawHeader order
Record(ft, subject) ==
    Tuple([k \in DOMAIN RawHeader |->
             CASE k = 5  -> subject[1]
               [] k = 12 -> subject[2]
               [] k = 16 -> ft
               [] k = 17 -> subject[2] \o "." \o ft
               [] OTHER  -> "x"])

\* the records of the two paired types, and one of a type transform does not name
Records ==
    {Record(ft, s) : ft \in {"crai", "cram"}, s \in Subjects}
    \cup {Record("bai", <<"D1", "S1">>)}

\* the tables of at most n records drawn from the set records
RecordLists(records, n) == UNION {[1..m -> records] : m \in 0..n}

Table(layout, records) ==
    [columns |-> layout.names,
     index   |-> Tuple([i \in DOMAIN records |-> i - 1]),
     rows    |-> Tuple([i \in DOMAIN records |->
                          Tuple([k \in DOMAIN layout.from |->
                                   IF layout.from[k] = 0 THEN "x"
                                   ELSE records[i][layout.from[k]]])])]

TransformInputs == {Table(l, r) : l \in Layouts, r \in RecordLists(Records, MaxRows)}

\* column names over the characters _reformat_headers distinguishes
ProbeChars == {" ", "\t", ".", "A", "a", "_"}

RECURSIVE ProbeNames(_)
ProbeNames(n) ==
    IF n = 0 THEN {""}
    ELSE ProbeNames(n - 1) \cup {s \o c : s \in ProbeNames(n - 1), c \in ProbeChars}

HeaderInputs ==
    {[columns |-> cols, index |-> <<>>, rows |-> <<>>] :
        cols \in {<<p>> : p \in ProbeNames(MaxNameLen)}
                 \cup {<<p, q>> : p, q \in ProbeNames(MaxNameLen)}}

-----------------------------------------------------------------------------
(* Paths and the files on disk. *)

IsUnder(p, d) == Len(p) > Len(d) + 1 /\ SubSeq(p, 1, Len(d) + 1) = d \o "/"

Slashes(p) == {i \in 1..Len(p) : CharAt(p, i) = "/"}

LastSlash(p) == CHOOSE i \in Slashes(p) : \A j \in Slashes(p) : j <= i

\* os.path.dirname, os.path.basename of a path that holds a '/'
Dirname(p) == SubSeq(p, 1, LastSlash(p) - 1)
Basename(p) == SubSeq(p, LastSlash(p) + 1, Len(p))

\* the path of p relative to directory d
RelPath(p, d) == SubSeq(p, Len(d) + 2, Len(p))

\* os.makedirs(p) below the existing directory base: p and its missing ancestors
Makedirs(base, p) ==
    {SubSeq(p, 1, i - 1) : i \in {j \in Slashes(p) : j > Len(base) + 1}} \cup {p}

NoFiles == [p \in {} |-> NaN]

Write(fs, p, content) == [q \in DOMAIN fs \cup {p} |-> IF q = p THEN content ELSE fs[q]]

FilesUnder(fs, d) == {p \in DOMAIN fs : IsUnder(p, d)}

\* the files of fs outside directory d
Without(fs, d) == [p \in DOMAIN fs \ FilesUnder(fs, d) |-> fs[p]]

\* a content digest: equal for equal contents only
Md5(content) == [md5 |-> content]

\* zipfile.ZIP_DEFLATED: what is stored, and what extraction gives back
Deflate(content) == [deflated |-> content]
Inflate(stored) == stored.deflated

-----------------------------------------------------------------------------
(* to_csv(sep='\t', index=False, header=True): a missing cell is written empty. *)

Cell(v) == IF v = NaN THEN "" ELSE v

SeriesToCsv(series) ==
    [kind   |-> "tsv",
     header |-> <<series.name>>,
     lines  |-> Tuple([i \in DOMAIN series.values |-> <<Cell(series.values[i])>>])]

FrameToCsv(df) ==
    [kind   |-> "tsv",
     header |-> df.columns,
     lines  |-> Tuple([i \in DOMAIN df.rows |-> SeqMap(Cell, df.rows[i])])]

-----------------------------------------------------------------------------
(* bagit: make_bag and Bag.save(manifests=True). *)

BagInfo == "Contact-Name: dcc"

TagFiles == {"bagit.txt", "bag-info.txt", "manifest-md5.txt"}

\* the payload: the files below <bag>/data
PayloadFiles(fs, bag_dir) == {p \in DOMAIN fs : IsUnder(p, bag_dir \o "/data")}

\* manifest-md5.txt: payload path relative to the bag -> digest
Manifest(fs, bag_dir) ==
    [rel \in {RelPath(p, bag_dir) : p \in PayloadFiles(fs, bag_dir)} |->
        Md5(fs[bag_dir \o "/" \o rel])]

\* the tag files as written over fs: declaration, bag-info, manifest, tag manifest
WithTagFiles(fs, bag_dir, info) ==
    LET a == Write(fs, bag_dir \o "/bagit.txt", [kind |-> "text", text |-> "BagIt-Version: 0.97"])
        b == Write(a, bag_dir \o "/bag-info.txt",
                   [kind |-> "info", info |-> info,
                    oxum |-> Cardinality(PayloadFiles(fs, bag_dir))])
        c == Write(b, bag_dir \o "/manifest-md5.txt",
                   [kind |-> "manifest", entries |-> Manifest(fs, bag_dir)])
    IN  Write(c, bag_dir \o "/tagmanifest-md5.txt",
              [kind |-> "manifest",
               entries |-> [t \in TagFiles |-> Md5(c[bag_dir \o "/" \o t])]])

-----------------------------------------------------------------------------
(* __zipdir and ZipFile.write *)

ArcnameMutant(root, file, pathLength) == root \o "/" \o file

\* line 63: root[pathLength:] + '/' + file
Arcname(root, file, pathLength) ==
    SubSeq(root, pathLength + 1, Len(root)) \o "/" \o file

RECURSIVE ZipEntryName(_)
\* ZipFile.write stores arcname without its leading separators
ZipEntryName(arcname) ==
    IF arcname # "" /\ CharAt(arcname, 1) = "/"
    THEN ZipEntryName(SubSeq(arcname, 2, Len(arcname)))
    ELSE arcname

\* os.walk is top-down: a directory's files come before those of the
\* directories below it; the order within a directory is the listing's
WalkNext(remaining) ==
    {p \in remaining : \A q \in remaining : ~IsUnder(Dirname(p), Dirname(q))}

-----------------------------------------------------------------------------
(* create_bag *)

TmpDir == "/tmp"

\* names tempfile.mkdtemp('bag_tmpd') may choose
TempNames == {TmpDir \o "/tmpk3bag_tmpd", TmpDir \o "/tmpq7xzbag_tmpd"}

\* the name tempfile.NamedTemporaryFile(suffix='.zip') chooses
ZipName == TmpDir \o "/tmpw9.zip"

BagNames == {"bag", "out/bag"}

BagLayouts ==
    {[names |-> RawHeader, from |-> Identity],
     [names |-> [RawHeader EXCEPT ![17] = "Comment"], from |-> Identity]}

\* the records of one donor
BagRecords == {r \in Records : r[5] = "D1"}

BagInputs == {Table(l, r) : l \in BagLayouts, r \in RecordLists(BagRecords, MaxBagRows)}

StepsMutant ==
    <<"mkdtemp", "makedirs", "make_bag", "reformat", "transform", "write_participant",
      "save", "write_sample", "tmpfile", "zipfile", "zipdir", "close", "rmtree",
      "return", "returned">>

\* the statements of create_bag, in program order (lines 30-56)
Steps ==
    <<"mkdtemp", "makedirs", "make_bag", "reformat", "transform", "write_participant",
      "write_sample", "save", "tmpfile", "zipfile", "zipdir", "close", "rmtree",
      "return", "returned">>

\* the statement that follows statement p
After(p) == Steps[FirstAt(Steps, p, 1) + 1]

BagDir == tempd \o "/" \o name
DataPath == BagDir \o "/data"

Init ==
    /\ data \in BagInputs
    /\ name \in BagNames
    /\ pc = "mkdtemp"
    /\ tables = NoTables
    /\ ret = ""
    /\ err = "none"
    /\ dirs = {TmpDir}
    /\ files = NoFiles
    /\ tempd = ""
    /\ zipfile_tmp = ""
    /\ todo = {}

\* line 30
Mkdtemp ==
    /\ pc = "mkdtemp"
    /\ \E d \in TempNames :
         /\ d \notin dirs
         /\ tempd' = d
         /\ dirs' = dirs \cup {d}
    /\ pc' = After(pc)
    /\ UNCHANGED <<data, name, tables, ret, err, files, zipfile_tmp, todo>>

\* lines 31-34
MakeDataPath ==
    /\ pc = "makedirs"
    /\ dirs' = dirs \cup Makedirs(tempd, DataPath)
    /\ pc' = After(pc)
    /\ UNCHANGED <<data, name, tables, ret, err, files, tempd, zipfile_tmp, todo>>

\* line 35: what the directory held moves below a new data/, the tag files appear
MakeBag ==
    /\ pc = "make_bag"
    /\ dirs' = dirs \cup {DataPath \o "/data"}
    /\ files' = WithTagFiles(files, BagDir, BagInfo)
    /\ pc' = After(pc)
    /\ UNCHANGED <<data, name, tables, ret, err, tempd, zipfile_tmp, todo>>

\* line 36
BagReformatHeaders ==
    /\ pc = "reformat"
    /\ data' = ReformatHeaders(data)
    /\ pc' = After(pc)
    /\ UNCHANGED <<name, tables, ret, err, dirs, files, tempd, zipfile_tmp, todo>>

\* line 37: an exception of transform leaves create_bag
BagTransform ==
    /\ pc = "transform"
    /\ LET r == Transform(data)
       IN  /\ pc' = IF r.err = "none" THEN After(pc) ELSE "raised"
           /\ err' = r.err
           /\ tables' = [participant |-> r.participant, sample |-> r.sample]
    /\ UNCHANGED <<data, name, ret, dirs, files, tempd, zipfile_tmp, todo>>

\* lines 39-42
WriteParticipant ==
    /\ pc = "write_participant"
    /\ files' = Write(files, DataPath \o "/participant.tsv", SeriesToCsv(tables.participant))
    /\ pc' = After(pc)
    /\ UNCHANGED <<data, name, tables, ret, err, dirs, tempd, zipfile_tmp, todo>>

\* lines 43-46
WriteSample ==
    /\ pc = "write_sample"
    /\ files' = Write(files, DataPath \o "/sample.tsv", FrameToCsv(tables.sample))
    /\ pc' = After(pc)
    /\ UNCHANGED <<data, name, tables, ret, err, dirs, tempd, zipfile_tmp, todo>>

\* line 48
Save ==
    /\ pc = "save"
    /\ files' = WithTagFiles(files, BagDir, BagInfo)
    /\ pc' = After(pc)
    /\ UNCHANGED <<data, name, tables, ret, err, dirs, tempd, zipfile_tmp, todo>>

\* line 50: delete=False, the file stays on disk when it is closed
MakeZipTmp ==
    /\ pc = "tmpfile"
    /\ zipfile_tmp' = ZipName
    /\ files' = Write(files, ZipName, [kind |-> "zip", entries |-> <<>>, closed |-> FALSE])
    /\ pc' = After(pc)
    /\ UNCHANGED <<data, name, tables, ret, err, dirs, tempd, todo>>

\* lines 51-52
OpenZip ==
    /\ pc = "zipfile"
    /\ pc' = After(pc)
    /\ UNCHANGED <<data, name, tables, ret, err, dirs, files, tempd, zipfile_tmp, todo>>

\* line 53 and lines 60-61: the walk of tempd begins
ZipdirEnter ==
    /\ pc = "zipdir"
    /\ todo' = FilesUnder(files, tempd)
    /\ pc' = "walk"
    /\ UNCHANGED <<data, name, tables, ret, err, dirs, files, tempd, zipfile_tmp>>

\* lines 62-63: one file of the walk is written to the archive
ZipdirWrite ==
    /\ pc = "walk"
    /\ \E p \in WalkNext(todo) :
         LET arcname == Arcname(Dirname(p), Basename(p), Len(tempd))
             entry == [name |-> ZipEntryName(arcname), stored |-> Deflate(files[p])]
         IN  /\ files' = [files EXCEPT ![zipfile_tmp].entries = Append(@, entry)]
             /\ todo' = todo \ {p}
    /\ UNCHANGED <<data, name, pc, tables, ret, err, dirs, tempd, zipfile_tmp>>

\* the walk is over: __zipdir returns
ZipdirReturn ==
    /\ pc = "walk"
    /\ todo = {}
    /\ pc' = After("zipdir")
    /\ UNCHANGED <<data, name, tables, ret, err, dirs, files, tempd, zipfile_tmp, todo>>

\* line 54
ZipClose ==
    /\ pc = "close"
    /\ files' = [files EXCEPT ![zipfile_tmp].closed = TRUE]
    /\ pc' = After(pc)
    /\ UNCHANGED <<data, name, tables, ret, err, dirs, tempd, zipfile_tmp, todo>>

\* line 55: shutil.rmtree(tempd, True) removes the tree, or meets an error and
\* ignores it
Rmtree ==
    /\ pc = "rmtree"
    /\ \/ /\ dirs' = {d \in dirs : d # tempd /\ ~IsUnder(d, tempd)}
          /\ files' = Without(files, tempd)
       \/ UNCHANGED <<dirs, files>>
    /\ pc' = After(pc)
    /\ UNCHANGED <<data, name, tables, ret, err, tempd, zipfile_tmp, todo>>

\* line 56
Return ==
    /\ pc = "return"
    /\ ret' = zipfile_tmp
    /\ pc' = After(pc)
    /\ UNCHANGED <<data, name, tables, err, dirs, files, tempd, zipfile_tmp, todo>>

\* the statements that touch the disk
IOSteps ==
    {"makedirs", "make_bag", "write_participant", "write_sample", "save", "tmpfile",
     "zipfile", "close"}

\* a filesystem error at one of them leaves create_bag: no handler, no finally
RaiseIOError ==
    /\ \/ pc \in IOSteps
       \/ pc = "walk" /\ todo # {}
    /\ pc' = "raised"
    /\ err' = "IOError"
    /\ UNCHANGED <<data, name, tables, ret, dirs, files, tempd, zipfile_tmp, todo>>

Next ==
    \/ Mkdtemp
    \/ MakeDataPath
    \/ MakeBag
    \/ BagReformatHeaders
    \/ BagTransform
    \/ WriteParticipant
    \/ WriteSample
    \/ Save
    \/ MakeZipTmp
    \/ OpenZip
    \/ ZipdirEnter
    \/ ZipdirWrite
    \/ ZipdirReturn
    \/ ZipClose
    \/ Rmtree
    \/ Return
    \/ RaiseIOError

Spec == Init /\ [][Next]_vars

-----------------------------------------------------------------------------
(* The handler's methods called on their own. *)

NoDisk ==
    /\ dirs = {TmpDir}
    /\ files = NoFiles
    /\ tempd = ""
    /\ zipfile_tmp = ""
    /\ todo = {}
    /\ ret = ""

InitTransform ==
    /\ data \in TransformInputs
    /\ name = "bag"
    /\ pc = "new"
    /\ tables = NoTables
    /\ err = "none"
    /\ NoDisk

InitHeaders ==
    /\ data \in HeaderInputs
    /\ name = "bag"
    /\ pc = "new"
    /\ tables = NoTables
    /\ err = "none"
    /\ NoDisk

\* a call of _reformat_headers
ReformatHeadersCall ==
    /\ pc \in {"new", "reformatted"}
    /\ data' = ReformatHeaders(data)
    /\ pc' = "reformatted"
    /\ UNCHANGED <<name, tables, ret, err, dirs, files, tempd, zipfile_tmp, todo>>

\* a call of transform
TransformCall ==
    /\ pc \in {"new", "reformatted"}
    /\ LET r == Transform(data)
       IN  /\ pc' = IF r.err = "none" THEN "transformed" ELSE "raised"
           /\ err' = r.err
           /\ tables' = [participant |-> r.participant, sample |-> r.sample]
    /\ UNCHANGED <<data, name, ret, dirs, files, tempd, zipfile_tmp, todo>>

NextMethods == ReformatHeadersCall \/ TransformCall

SpecTransform == InitTransform /\ [][NextMethods]_vars

SpecHeaders == InitHeaders /\ [][NextMethods]_vars

-----------------------------------------------------------------------------
(* Properties of create_bag (checked under Spec). *)

Ended == pc \in {"returned", "raised"}

\* the archive file create_bag made, as it is on disk
Archive == files[ZipName]

\* the statements between manifest finalisation and the end of archiving
Sealed == pc \in {"tmpfile", "zipfile", "zipdir", "walk", "close"}

ManifestPath == BagDir \o "/manifest-md5.txt"

BundleFiles == [p \in FilesUnder(files, BagDir) |-> files[p]]

\* C1: once an invocation of create_bag that created the temporary root has
\* ended, by return or by an exception, the temporary root no longer exists.
C1_TempRootRemoved ==
    (Ended /\ tempd # "") => (tempd \notin dirs /\ FilesUnder(files, tempd) = {})

\* From manifest finalisation on, the manifest lists both tables, each with the
\* digest of its complete serialisation.
ManifestCoversTables ==
    (Sealed \/ pc = "rmtree") =>
        LET entries == files[ManifestPath].entries
        IN  /\ {"data/participant.tsv", "data/sample.tsv"} \subseteq DOMAIN entries
            /\ entries["data/participant.tsv"] = Md5(SeriesToCsv(tables.participant))
            /\ entries["data/sample.tsv"] = Md5(FrameToCsv(tables.sample))
            /\ \A p \in PayloadFiles(files, BagDir) :
                    entries[RelPath(p, BagDir)] = Md5(files[p])

\* A step taken between manifest finalisation and the end of archiving leaves
\* every file under the bundle root as it was.
SealedStepKeepsBundle == Sealed => BundleFiles' = BundleFiles

\* C2: the manifest is finalised after participant.tsv and sample.tsv are
\* completely written, and nothing under the bundle root is created or changed
\* from then until the directory is archived.
C2_SealedBeforeArchive == [](ManifestCoversTables) /\ [][SealedStepKeepsBundle]_vars

C2_Witness ==
    /\ pc = "close"
    /\ DOMAIN files[ManifestPath].entries = {"data/participant.tsv", "data/sample.tsv"}
    /\ Len(Archive.entries) = 6

\* the manifests the archive holds, by the bundle's name
ArchivedManifests ==
    {i \in DOMAIN Archive.entries : Archive.entries[i].name = name \o "/manifest-md5.txt"}

\* C3: in the archive create_bag returns, every payload file the checksum
\* manifest lists is an entry named <bundle name>/<manifest path> whose
\* content has the digest the manifest records.
C3_ArchiveMatchesManifest ==
    pc = "returned" =>
        /\ ArchivedManifests # {}
        /\ \A m \in ArchivedManifests :
             LET entries == Inflate(Archive.entries[m].stored).entries
             IN  \A rel \in DOMAIN entries :
                    \E i \in DOMAIN Archive.entries :
                        /\ Archive.entries[i].name = name \o "/" \o rel
                        /\ Md5(Inflate(Archive.entries[i].stored)) = entries[rel]

C3_Witness ==
    /\ pc = "returned"
    /\ Len(tables.sample.rows) = 1
    /\ tables.sample.rows[1][ColPos(tables.sample.columns, "file_type2")] = "cram"
    /\ ret = ZipName
    /\ \E m \in ArchivedManifests :
         DOMAIN Inflate(Archive.entries[m].stored).entries
            = {"data/participant.tsv", "data/sample.tsv"}
    /\ \E i \in DOMAIN Archive.entries :
         /\ Archive.entries[i].name = name \o "/data/sample.tsv"
         /\ Inflate(Archive.entries[i].stored).lines # <<>>

\* C4: create_bag returns a complete, closed archive, or it fails and leaves no
\* archive file, complete or partial, on disk.
C4_NoPartialOutput ==
    /\ pc = "returned" => (ret \in DOMAIN files /\ files[ret].closed /\ Len(files[ret].entries) = 6)
    /\ pc = "raised" => ZipName \notin DOMAIN files

-----------------------------------------------------------------------------
(* Properties of transform and _reformat_headers (checked under               *)
(* SpecTransform and SpecHeaders).                                          *)

Called == pc \in {"transformed", "raised"}

NamedColumns ==
    {"file_type", "file_path", "upload_file_id", "file_urls", "file_dos_url",
     "donor_uuid", "sample_uuid"}

\* the positions of the rows of df whose file type is one of types
RowsOfType(df, types) ==
    LET p == ColPos(df.columns, "file_type")
        Test(i) == df.rows[i][p] \in types
    IN  SelectIdx(df.rows, Test, 1)

NCrai == Len(RowsOfType(data, {"crai"}))
NCram == Len(RowsOfType(data, {"cram"}))

Min(a, b) == IF a < b THEN a ELSE b

\* the input has every named column, under distinct labels that leave the
\* suffixed labels of the cram columns free, and the 22 columns the reorder
\* list reaches
HasSchema ==
    /\ NamedColumns \subseteq Range(data.columns)
    /\ Len(data.columns) >= 22
    /\ IsUnique(data.columns)
    /\ \A c \in Range(Df2Columns) : Df2Rename[c] \notin Range(data.columns)

\* C5 as stated: with differing numbers of cram and crai rows transform does not
\* raise and the joined table has one row per position below min(#cram, #crai).
C5_JoinsOverlapOnly ==
    (Called /\ HasSchema /\ NCram # NCrai) =>
        /\ err = "none"
        /\ Len(Wide(data).rows) = Min(NCram, NCrai)

\* C5 amended: with differing numbers of cram and crai rows transform does not
\* raise and the joined table has one row per crai row: row i is the i-th crai
\* row followed by the projected cells of the i-th cram row, or by missing cells
\* when there is no i-th cram row; cram rows past the last crai row are dropped.
C5_JoinsOnCraiIndex ==
    (Called /\ HasSchema /\ NCram # NCrai) =>
        LET crai == RowsOfType(data, {"crai"})
            cram == RowsOfType(data, {"cram"})
            wide == Wide(data)
            n == Len(data.columns)
        IN  /\ err = "none"
            /\ Len(wide.rows) = NCrai
            /\ Len(tables.sample.rows) <= NCrai
            /\ \A i \in 1..NCrai :
                 /\ SubSeq(wide.rows[i], 1, n) = data.rows[crai[i]]
                 /\ \A k \in DOMAIN Df2Columns :
                      wide.rows[i][n + k] =
                        IF i <= NCram
                        THEN data.rows[cram[i]][ColPos(data.columns, Df2Columns[k])]
                        ELSE NaN

C5_Witness ==
    /\ pc = "transformed"
    /\ HasSchema
    /\ NCrai = 2
    /\ NCram = 1
    /\ Len(tables.sample.rows) = 2

\* C6: transform raises whenever a named column is absent; it never completes
\* with one of them missing.
C6_MissingColumnRaises ==
    pc = "transformed" => NamedColumns \subseteq Range(data.columns)

\* the export's header after _reformat_headers, and the sample header transform
\* gives for it
ExportHeader == ReformatHeaders(Table([names |-> RawHeader, from |-> Identity], <<>>))

TargetHeader == Transform(ExportHeader).sample.columns

\* C7: the sample table's header is the fixed target order, entity:sample_id
\* then participant_id first, whatever the order of the input's columns.
C7_FixedColumnOrder ==
    (pc = "transformed"
        /\ Range(data.columns) = Range(ExportHeader.columns)
        /\ Len(data.columns) = Len(ExportHeader.columns)) =>
        /\ tables.sample.columns[1] = "entity:sample_id"
        /\ tables.sample.columns[2] = "participant_id"
        /\ tables.sample.columns = TargetHeader

\* C8: the participant table is the donor column of the sample table, row for
\* row and not de-duplicated: a donor shared by two sample rows occurs twice.
C8_ParticipantRowForRow ==
    pc = "transformed" =>
        LET part == tables.participant.values
            rows == tables.sample.rows
            p == ColPos(tables.sample.columns, "participant_id")
        IN  /\ tables.participant.name = "entity:participant_id"
            /\ Len(part) = Len(rows)
            /\ \A i \in DOMAIN rows : part[i] = rows[i][p]
            /\ \A i, j \in DOMAIN rows :
                 (i # j /\ rows[i][p] = rows[j][p]) =>
                    Cardinality({k \in DOMAIN part : part[k] = rows[i][p]}) > 1

C8_Witness ==
    /\ pc = "transformed"
    /\ Len(tables.sample.rows) >= 2
    /\ tables.sample.rows[1] # tables.sample.rows[2]
    /\ tables.participant.values[1] = tables.participant.values[2]

\* the input without the rows whose file type is neither crai nor cram
WithoutOtherTypes(df) ==
    IF HasColumn(df, "file_type") THEN TakeRows(df, RowsOfType(df, {"crai", "cram"})) ELSE df

\* C9: rows of any other file type change nothing: the outcome of transform is
\* its outcome on the input with those rows removed.
C9_OtherTypesIgnored ==
    Called =>
        [err |-> err, participant |-> tables.participant, sample |-> tables.sample]
            = Transform(WithoutOtherTypes(data))

C9_Witness ==
    /\ pc = "transformed"
    /\ Len(RowsOfType(data, {"bai"})) > 0
    /\ NCrai > 0
    /\ NCram > 0
    /\ Len(WithoutOtherTypes(data).rows) < Len(data.rows)

\* C10: after a pass of _reformat_headers another pass changes no column name,
\* and no column name holds whitespace, a '.' or an upper-case letter.
C10_HeadersNormalised ==
    pc = "reformatted" =>
        /\ ReformatHeaders(data).columns = data.columns
        /\ \A i \in DOMAIN data.columns :
             /\ ~HasChar(data.columns[i], Whitespace)
             /\ ~HasChar(data.columns[i], {"."})
             /\ ~HasUpper(data.columns[i])

====
